---- MODULE Spec2Model ----
(***************************************************************************)
(* The UserPassport ink! contract of src/lib.rs as a state machine.        *)
(* The storage struct is the state; the host delivers one call at a time,  *)
(* each with a caller identity; every message is one atomic action.        *)
(* Strings are sequences of one-character strings, so that formatting and  *)
(* cloning are computed and not assumed.                                   *)
(***************************************************************************)
EXTENDS Integers, Sequences, FiniteSets, TLC

\* ---------------------------------------------------------------- bounds
MaxLen == 1          \* longest String argument of the constructor
MaxBirthday == 1     \* largest birthday argument
MaxAccount == 2      \* account ids are 0..MaxAccount
MaxReassign == 2     \* direct assignments to passport.owner the test driver makes

\* ------------------------------------------------------------- data sets
Chars == {"a", "b"}

ZeroAccount == 0

Accounts == 0..MaxAccount

Birthdays == 0..MaxBirthday

Strings == UNION {[1..n -> Chars] : n \in 0..MaxLen}

\* ------------------------------------------------------------- variables
VARIABLES
    surname,    \* storage: user surname
    name,       \* storage: user name
    birthday,   \* storage: birthday, Unix timestamp
    assets,     \* storage: Mapping<AccountId, u32>
    metadata,   \* storage: secret metadata
    active,     \* storage: contract is active
    owner,      \* storage: contract owner
    deployed,   \* the constructor has run
    ctor,       \* the instantiate call the host delivers: caller and arguments
    op,         \* the last call executed
    caller,     \* env().caller() of the last call
    ret,        \* value returned by the last call
    entry_active, \* the active flag as the last call found it on entry
    twin_active, \* active flag of a second record that receives the same calls
    twin_ret,   \* value the second record returned to the last call
    twin_secret, \* the name or metadata the second record read in the last call
    swaps       \* direct assignments to passport.owner made so far (test only)

storage == <<surname, name, birthday, assets, metadata, active, owner>>

vars == <<surname, name, birthday, assets, metadata, active, owner,
          deployed, ctor, op, caller, ret, entry_active,
          twin_active, twin_ret, twin_secret, swaps>>

\* ---------------------------------------------------------- return values
CallerIsNotAnOwner == "CallerIsNotAnOwner"

NoRet == [kind |-> "None", str |-> <<>>, flag |-> FALSE, err |-> ""]

RetString(s) == [kind |-> "String", str |-> s, flag |-> FALSE, err |-> ""]

RetBool(b) == [kind |-> "Bool", str |-> <<>>, flag |-> b, err |-> ""]

OkUnit == [kind |-> "Ok", str |-> <<>>, flag |-> FALSE, err |-> ""]

OkString(s) == [kind |-> "Ok", str |-> s, flag |-> FALSE, err |-> ""]

Err(e) == [kind |-> "Err", str |-> <<>>, flag |-> FALSE, err |-> e]

\* -------------------------------------------------------- pure functions
\* format! with the separator dropped from the template
format_nospace(a, b) == a \o b

\* ink_env::format!("{} {}", a, b)
format(a, b) == a \o <<" ">> \o b

\* String::clone: a fresh string with the same characters
clone(s) == [i \in 1..Len(s) |-> s[i]]

EmptyMapping == [a \in {} |-> 0]

\* get_user_name with the full name in both branches
user_name_leak(c, o, s, n) ==
    IF c = o THEN RetString(format(s, n)) ELSE RetString(format(s, n))

\* get_user_name that shows other callers the surname and the name's initial
user_name_hint(c, o, s, n) ==
    IF c = o THEN RetString(format(s, n))
             ELSE RetString(s \o (IF Len(n) > 0 THEN <<n[1]>> ELSE <<>>))

\* get_user_name that gives the full name only while the record is active
user_name_if_active(c, o, s, n) ==
    IF c = o /\ active THEN RetString(format(s, n)) ELSE RetString(clone(s))

\* body of get_user_name: caller c, stored owner o, surname s, name n
user_name(c, o, s, n) ==
    IF c = o THEN RetString(format(s, n)) ELSE RetString(clone(s))

\* get_metadata without the owner check
metadata_of_open(c, o, m) == OkString(clone(m))

\* get_metadata that drops the first character before returning
metadata_of_trim(c, o, m) ==
    IF c = o THEN OkString(SubSeq(m, 2, Len(m))) ELSE Err(CallerIsNotAnOwner)

\* body of get_metadata: caller c, stored owner o, metadata m
metadata_of(c, o, m) ==
    IF c = o THEN OkString(clone(m)) ELSE Err(CallerIsNotAnOwner)

\* ------------------------------------------------------------------ Init
\* Storage as initialize_contract allocates it, before the constructor's
\* closure has run; the instantiate call is any caller with any arguments.
Init ==
    /\ surname = <<>>
    /\ name = <<>>
    /\ birthday = 0
    /\ assets = EmptyMapping
    /\ metadata = <<>>
    /\ active = FALSE
    /\ owner = ZeroAccount
    /\ deployed = FALSE
    /\ ctor \in [caller : Accounts, surname : Strings, name : Strings,
                 birthday : Birthdays, metadata : Strings]
    /\ op = "none"
    /\ caller = ZeroAccount
    /\ ret = NoRet
    /\ entry_active = FALSE
    /\ twin_active = FALSE
    /\ twin_ret = NoRet
    /\ twin_secret = <<>>
    /\ swaps = 0

\* --------------------------------------------------------------- actions
\* constructor with surname and name stored crosswise
new_swapped ==
    /\ ~deployed
    /\ surname' = ctor.name
    /\ name' = ctor.surname
    /\ birthday' = ctor.birthday
    /\ metadata' = ctor.metadata
    /\ active' = TRUE
    /\ owner' = ctor.caller
    /\ assets' = EmptyMapping
    /\ deployed' = TRUE
    /\ op' = "new"
    /\ caller' = ctor.caller
    /\ ret' = NoRet
    /\ entry_active' = active
    /\ UNCHANGED ctor

\* constructor that credits its caller with one asset
new_with_asset ==
    /\ ~deployed
    /\ surname' = ctor.surname
    /\ name' = ctor.name
    /\ birthday' = ctor.birthday
    /\ metadata' = ctor.metadata
    /\ active' = TRUE
    /\ owner' = ctor.caller
    /\ assets' = [a \in {ctor.caller} |-> 1]
    /\ deployed' = TRUE
    /\ op' = "new"
    /\ caller' = ctor.caller
    /\ ret' = NoRet
    /\ entry_active' = active
    /\ UNCHANGED ctor

\* UserPassport::new
new ==
    /\ ~deployed
    /\ surname' = ctor.surname
    /\ name' = ctor.name
    /\ birthday' = ctor.birthday
    /\ metadata' = ctor.metadata
    /\ active' = TRUE
    /\ owner' = ctor.caller
    /\ assets' = EmptyMapping
    /\ deployed' = TRUE
    /\ op' = "new"
    /\ caller' = ctor.caller
    /\ ret' = NoRet
    /\ entry_active' = active
    /\ UNCHANGED ctor

\* UserPassport::get_user_name
get_user_name(c) ==
    /\ deployed
    /\ op' = "get_user_name"
    /\ caller' = c
    /\ ret' = user_name(c, owner, surname, name)
    /\ entry_active' = active
    /\ UNCHANGED <<storage, deployed, ctor>>

\* is_active behind the owner check
is_active_gated(c) ==
    /\ deployed
    /\ op' = "is_active"
    /\ caller' = c
    /\ ret' = IF c = owner THEN RetBool(active) ELSE Err(CallerIsNotAnOwner)
    /\ entry_active' = active
    /\ UNCHANGED <<storage, deployed, ctor>>

\* UserPassport::is_active
is_active(c) ==
    /\ deployed
    /\ op' = "is_active"
    /\ caller' = c
    /\ ret' = RetBool(active)
    /\ entry_active' = active
    /\ UNCHANGED <<storage, deployed, ctor>>

\* what every variant of deactivate below shares
deactivate_frame(c) ==
    /\ deployed
    /\ op' = "deactivate"
    /\ caller' = c
    /\ entry_active' = active
    /\ UNCHANGED <<surname, name, birthday, assets, metadata, deployed, ctor>>

\* deactivate that clears the flag before it checks the caller
deactivate_ungated(c) ==
    /\ deactivate_frame(c)
    /\ active' = FALSE
    /\ ret' = IF c = owner THEN OkUnit ELSE Err(CallerIsNotAnOwner)
    /\ owner' = owner

\* deactivate that reports success without clearing the flag
deactivate_noflag(c) ==
    /\ deactivate_frame(c)
    /\ active' = active
    /\ ret' = IF c = owner THEN OkUnit ELSE Err(CallerIsNotAnOwner)
    /\ owner' = owner

\* deactivate that flips the flag instead of clearing it
deactivate_toggle(c) ==
    /\ deactivate_frame(c)
    /\ active' = IF c = owner THEN ~active ELSE active
    /\ ret' = IF c = owner THEN OkUnit ELSE Err(CallerIsNotAnOwner)
    /\ owner' = owner

\* deactivate that refuses a record that is already inactive
deactivate_strict(c) ==
    /\ deactivate_frame(c)
    /\ active' = IF c = owner THEN FALSE ELSE active
    /\ ret' = IF c = owner /\ active THEN OkUnit ELSE Err(CallerIsNotAnOwner)
    /\ owner' = owner

\* deactivate that also gives up ownership
deactivate_renounce(c) ==
    /\ deactivate_frame(c)
    /\ active' = IF c = owner THEN FALSE ELSE active
    /\ ret' = IF c = owner THEN OkUnit ELSE Err(CallerIsNotAnOwner)
    /\ owner' = IF c = owner THEN ZeroAccount ELSE owner

\* deactivate with the owner check negated
deactivate_inverted(c) ==
    /\ deactivate_frame(c)
    /\ active' = IF c # owner THEN FALSE ELSE active
    /\ ret' = IF c # owner THEN OkUnit ELSE Err(CallerIsNotAnOwner)
    /\ owner' = owner

\* deactivate that checks the caller against the account that constructed
\* the record instead of the owner stored now
deactivate_cached(c) ==
    /\ deactivate_frame(c)
    /\ active' = IF c = ctor.caller THEN FALSE ELSE active
    /\ ret' = IF c = ctor.caller THEN OkUnit ELSE Err(CallerIsNotAnOwner)
    /\ owner' = owner

\* deactivate that also erases the metadata
deactivate_wipe(c) ==
    /\ deployed
    /\ op' = "deactivate"
    /\ caller' = c
    /\ entry_active' = active
    /\ active' = IF c = owner THEN FALSE ELSE active
    /\ metadata' = IF c = owner THEN <<>> ELSE metadata
    /\ ret' = IF c = owner THEN OkUnit ELSE Err(CallerIsNotAnOwner)
    /\ UNCHANGED <<surname, name, birthday, assets, owner, deployed, ctor>>

\* UserPassport::deactivate
deactivate(c) ==
    /\ deployed
    /\ op' = "deactivate"
    /\ caller' = c
    /\ entry_active' = active
    /\ IF c = owner
         THEN /\ active' = FALSE
              /\ ret' = OkUnit
         ELSE /\ active' = active
              /\ ret' = Err(CallerIsNotAnOwner)
    /\ UNCHANGED <<surname, name, birthday, assets, metadata, owner,
                   deployed, ctor>>

\* get_metadata that moves the string out of storage instead of cloning it
get_metadata_taking(c) ==
    /\ deployed
    /\ op' = "get_metadata"
    /\ caller' = c
    /\ ret' = metadata_of(c, owner, metadata)
    /\ entry_active' = active
    /\ metadata' = IF c = owner THEN <<>> ELSE metadata
    /\ UNCHANGED <<surname, name, birthday, assets, active, owner,
                   deployed, ctor>>

\* UserPassport::get_metadata
get_metadata(c) ==
    /\ deployed
    /\ op' = "get_metadata"
    /\ caller' = c
    /\ ret' = metadata_of(c, owner, metadata)
    /\ entry_active' = active
    /\ UNCHANGED <<storage, deployed, ctor>>

\* ------------------------------------------------------- the second record
\* A second UserPassport that agrees with the stored one on surname and owner
\* (it reads them from the same variables), keeps its own active flag, and
\* holds any name and any metadata: each call is delivered to both records
\* and the second one answers from whatever secrets it may hold.

\* UserPassport::new on the second record
twin_new ==
    /\ twin_active' = TRUE
    /\ twin_ret' = NoRet
    /\ twin_secret' = <<>>

\* UserPassport::get_user_name on the second record
twin_get_user_name(c) ==
    /\ \E n \in Strings :
         /\ twin_secret' = n
         /\ twin_ret' = user_name(c, owner, surname, n)
    /\ twin_active' = twin_active

\* UserPassport::is_active on the second record
twin_is_active(c) ==
    /\ twin_ret' = RetBool(twin_active)
    /\ twin_secret' = <<>>
    /\ twin_active' = twin_active

\* UserPassport::deactivate on the second record
twin_deactivate(c) ==
    /\ twin_secret' = <<>>
    /\ IF c = owner
         THEN /\ twin_active' = FALSE
              /\ twin_ret' = OkUnit
         ELSE /\ twin_active' = twin_active
              /\ twin_ret' = Err(CallerIsNotAnOwner)

\* UserPassport::get_metadata on the second record
twin_get_metadata(c) ==
    /\ \E m \in Strings :
         /\ twin_secret' = m
         /\ twin_ret' = metadata_of(c, owner, m)
    /\ twin_active' = twin_active

\* ------------------------------------------------------- the test driver
\* tests::it_works assigns passport.owner directly, to the zero account and
\* back; here any account, at most MaxReassign times.
set_owner(a) ==
    /\ deployed
    /\ swaps < MaxReassign
    /\ a # owner
    /\ owner' = a
    /\ swaps' = swaps + 1
    /\ op' = "set_owner"
    /\ ret' = NoRet
    /\ entry_active' = active
    /\ UNCHANGED <<surname, name, birthday, assets, metadata, active,
                   deployed, ctor, caller, twin_active, twin_ret,
                   twin_secret>>

\* ------------------------------------------------------- specifications
\* what a call leaves alone when only the stored record receives it
idle == UNCHANGED <<twin_active, twin_ret, twin_secret, swaps>>

Next ==
    \/ new /\ idle
    \/ \E c \in Accounts : get_user_name(c) /\ idle
    \/ \E c \in Accounts : is_active(c) /\ idle
    \/ \E c \in Accounts : deactivate(c) /\ idle
    \/ \E c \in Accounts : get_metadata(c) /\ idle

\* the contract as deployed: the constructor and the four messages
Spec == Init /\ [][Next]_vars

\* every call delivered to the stored record and to the second record
NextTwin ==
    \/ new /\ twin_new /\ UNCHANGED swaps
    \/ \E c \in Accounts :
         get_user_name(c) /\ twin_get_user_name(c) /\ UNCHANGED swaps
    \/ \E c \in Accounts :
         is_active(c) /\ twin_is_active(c) /\ UNCHANGED swaps
    \/ \E c \in Accounts :
         deactivate(c) /\ twin_deactivate(c) /\ UNCHANGED swaps
    \/ \E c \in Accounts :
         get_metadata(c) /\ twin_get_metadata(c) /\ UNCHANGED swaps

\* two records side by side under the same sequence of calls
SpecTwin == Init /\ [][NextTwin]_vars

\* the arguments tests::it_works constructs the passport with
InitTest ==
    /\ Init
    /\ ctor.surname = <<"a">>
    /\ ctor.name = <<"b">>
    /\ ctor.birthday = 1
    /\ ctor.metadata = <<"b">>

NextTest ==
    \/ Next
    \/ \E a \in Accounts : set_owner(a)

\* the contract driven as the unit test drives it: the messages plus direct
\* assignment of the owner field
SpecTest == InitTest /\ [][NextTest]_vars

\* ---------------------------------------------------------------- claims
Messages == {"get_user_name", "is_active", "deactivate", "get_metadata"}

C2_OwnerGetsFullName ==
    (op = "get_user_name" /\ caller = owner) =>
        /\ ret.kind = "String"
        /\ Len(ret.str) = Len(ctor.surname) + 1 + Len(ctor.name)
        /\ SubSeq(ret.str, 1, Len(ctor.surname)) = ctor.surname
        /\ ret.str[Len(ctor.surname) + 1] = " "
        /\ SubSeq(ret.str, Len(ctor.surname) + 2, Len(ret.str)) = ctor.name

C2_Witness ==
    /\ op = "get_user_name"
    /\ caller = owner
    /\ ret.str = <<"a", " ", "b">>
    /\ ~active

\* C3: a deactivate call by a caller other than the owner returns
\* CallerIsNotAnOwner and changes no field of the record.
C3_NonOwnerDeactivateDenied ==
    [][(op' = "deactivate" /\ caller' # owner) =>
          /\ ret' = Err(CallerIsNotAnOwner)
          /\ storage' = storage]_vars

C3_Witness ==
    /\ op = "deactivate"
    /\ caller # owner
    /\ ret = Err(CallerIsNotAnOwner)
    /\ entry_active
    /\ active

\* C4: a deactivate call by the owner returns success, and from then on
\* every is_active call, whoever makes it, returns false.  Stated step by
\* step: the owner's call returns Ok(()) and leaves the flag false, and from
\* a state with the flag false every call leaves it false and every
\* is_active call returns false.
C4_OwnerDeactivates ==
    [][/\ (deployed /\ op' = "deactivate" /\ caller' = owner) =>
             (ret' = OkUnit /\ ~active')
       /\ (deployed /\ ~active) =>
             /\ ~active'
             /\ \A c \in Accounts :
                  (op' = "is_active" /\ caller' = c) => ret' = RetBool(FALSE)]_vars

C4_Witness ==
    /\ op = "is_active"
    /\ caller # owner
    /\ ret = RetBool(FALSE)
    /\ ~entry_active

\* C5: get_metadata called by a caller other than the owner returns
\* CallerIsNotAnOwner, and what it returns carries nothing of the stored
\* metadata: the result is the same whatever the metadata is.
C5_NonOwnerMetadataDenied ==
    (op = "get_metadata" /\ caller # owner) =>
        /\ ret = Err(CallerIsNotAnOwner)
        /\ ret.str = <<>>
        /\ \A m \in Strings : metadata_of(caller, owner, m) = ret

C5_Witness ==
    /\ op = "get_metadata"
    /\ caller # owner
    /\ ret.kind = "Err"
    /\ Len(metadata) > 0

\* C6: whatever calls came before, get_metadata called by the owner returns
\* success carrying exactly the metadata passed to the constructor.
C6_OwnerGetsMetadataVerbatim ==
    (op = "get_metadata" /\ caller = owner) =>
        /\ ret.kind = "Ok"
        /\ ret.str = ctor.metadata

C6_Witness ==
    /\ op = "get_metadata"
    /\ caller = owner
    /\ ret.kind = "Ok"
    /\ ret.str = <<"b">>
    /\ ~active

\* C7: the record is active right after construction, and once the active
\* flag is false no call sets it back to true.
C7_ActivationOneWay ==
    [][/\ (op' = "new" /\ ~deployed) => active'
       /\ (deployed /\ ~active) => ~active']_vars

C7_Witness ==
    /\ deployed
    /\ ~active
    /\ ~entry_active
    /\ op = "deactivate"
    /\ caller = owner

\* C8: deactivate called by the owner on a record that is already inactive
\* returns success again and leaves the record as it was, active = false
\* included, so a second owner call ends in the state the first one reached.
C8_DeactivateIdempotent ==
    [][(op' = "deactivate" /\ caller' = owner /\ deployed /\ ~active) =>
          /\ ret' = OkUnit
          /\ ~active'
          /\ storage' = storage]_vars

C8_Witness ==
    /\ op = "deactivate"
    /\ caller = owner
    /\ ~entry_active
    /\ ret = OkUnit
    /\ ~active

\* C9: in every state reached through get_user_name, is_active, deactivate
\* and get_metadata, called by anyone, the stored owner is the identity that
\* called the constructor.
C9_OwnerImmutable ==
    deployed => owner = ctor.caller

C9_Witness ==
    /\ deployed
    /\ op = "deactivate"
    /\ ret = OkUnit
    /\ owner = ctor.caller
    /\ owner # ZeroAccount

\* C10: the constructor can always run on a fresh contract, whoever calls it
\* with whatever arguments, and right after it the owner is its caller,
\* active is true, and surname, name, birthday and metadata are its arguments.
C10_Construction ==
    /\ ~deployed => ENABLED new
    /\ op = "new" =>
         /\ deployed
         /\ owner = ctor.caller
         /\ active = TRUE
         /\ surname = ctor.surname
         /\ name = ctor.name
         /\ birthday = ctor.birthday
         /\ metadata = ctor.metadata

C10_Witness ==
    /\ op = "new"
    /\ deployed
    /\ owner # ZeroAccount
    /\ surname # name
    /\ Len(metadata) > 0
    /\ birthday > 0

\* C11: is_active has no privilege check: whoever calls it, owner or not, it
\* returns the current value of the active flag and never an error.
C11_IsActiveWorldReadable ==
    op = "is_active" =>
        /\ ret.kind = "Bool"
        /\ ret.err = ""
        /\ ret.flag = entry_active
        /\ ret.flag = active

C11_Witness ==
    /\ op = "is_active"
    /\ caller # owner
    /\ ret = RetBool(TRUE)
    /\ active

C13_ActiveChangesOnlyByOwnerDeactivate ==
    [][(deployed /\ active' # active) =>
          /\ op' = "deactivate"
          /\ caller' = owner
          /\ ret' = OkUnit
          /\ active
          /\ ~active']_vars

C13_Witness ==
    /\ op = "deactivate"
    /\ caller = owner
    /\ entry_active
    /\ ~active
    /\ ret = OkUnit

\* C14: the outcome of deactivate, get_metadata and get_user_name is decided
\* by the caller of that call and the owner stored at that moment, whatever
\* calls and owner reassignments came before: the caller equal to the stored
\* owner gets success, the metadata and the full name, any other caller gets
\* CallerIsNotAnOwner and the surname.  (SpecTest)
C14_OwnerCheckedFresh ==
    /\ op = "deactivate" =>
         ret = IF caller = owner THEN OkUnit ELSE Err(CallerIsNotAnOwner)
    /\ op = "get_metadata" =>
         ret = IF caller = owner THEN OkString(metadata)
                                 ELSE Err(CallerIsNotAnOwner)
    /\ op = "get_user_name" =>
         ret = RetString(IF caller = owner THEN surname \o <<" ">> \o name
                                           ELSE surname)

\* the owner field was assigned away from the constructing account and back,
\* and that account's deactivate then succeeded on a record still active
C14_Witness ==
    /\ swaps = 2
    /\ owner = ctor.caller
    /\ op = "deactivate"
    /\ caller = ctor.caller
    /\ ret = OkUnit
    /\ entry_active

\* C15: get_user_name, is_active and get_metadata are pure reads: for every
\* caller, whether the call succeeds or returns CallerIsNotAnOwner, every
\* field of the record is the same after the call as before it.
C15_ReadsArePure ==
    [][(deployed /\ op' \in {"get_user_name", "is_active", "get_metadata"}) =>
          /\ surname' = surname
          /\ name' = name
          /\ birthday' = birthday
          /\ metadata' = metadata
          /\ active' = active
          /\ owner' = owner
          /\ assets' = assets]_vars

C15_Witness ==
    /\ op = "get_metadata"
    /\ caller = owner
    /\ ret.kind = "Ok"
    /\ Len(metadata) > 0
    /\ metadata = ctor.metadata
    /\ active

\* C16: a successful deactivate changes the active flag and nothing else,
\* and in every state after construction surname, name, birthday, metadata,
\* owner and assets still have the values construction gave them.
C16_OnlyActiveChanges ==
    /\ [](deployed =>
            /\ surname = ctor.surname
            /\ name = ctor.name
            /\ birthday = ctor.birthday
            /\ metadata = ctor.metadata
            /\ owner = ctor.caller
            /\ assets = EmptyMapping)
    /\ [][(deployed /\ op' = "deactivate" /\ ret' = OkUnit) =>
             /\ ~active'
             /\ <<surname, name, birthday, metadata, owner, assets>>' =
                  <<surname, name, birthday, metadata, owner, assets>>]_vars

C16_Witness ==
    /\ op = "deactivate"
    /\ ret = OkUnit
    /\ entry_active
    /\ ~active
    /\ Len(metadata) > 0
    /\ Len(name) > 0
    /\ birthday > 0

\* C17 as stated: after construction by identity X, assets[X] = 1 in every
\* reachable state.
C17_AssetsOfOwnerIsOne ==
    deployed => (ctor.caller \in DOMAIN assets /\ assets[ctor.caller] = 1)

\* C17 as the contract has it: construction leaves the assets mapping empty,
\* with no entry for the constructing identity, and since no message writes
\* the mapping it is empty in every reachable state.
C17_AssetsStayEmpty ==
    /\ DOMAIN assets = {}
    /\ ctor.caller \notin DOMAIN assets

C17_Witness ==
    /\ deployed
    /\ op = "deactivate"
    /\ ret = OkUnit
    /\ DOMAIN assets = {}
    /\ ~entry_active

\* C18: deactivation changes no answer of get_user_name or get_metadata: on
\* an inactive record as on an active one, the owner reads surname, space,
\* name and the metadata, and any other caller reads the surname and is
\* denied the metadata.
C18_InactiveReadsAsActive ==
    \A a \in BOOLEAN :
        (deployed /\ active = a) =>
            /\ op = "get_user_name" =>
                 ret = RetString(IF caller = owner
                                   THEN ctor.surname \o <<" ">> \o ctor.name
                                   ELSE ctor.surname)
            /\ op = "get_metadata" =>
                 ret = IF caller = owner THEN OkString(ctor.metadata)
                                         ELSE Err(CallerIsNotAnOwner)

C18_Witness ==
    /\ ~active
    /\ ~entry_active
    /\ op = "get_user_name"
    /\ caller = owner
    /\ ret.str = <<"b", " ", "a">>

====
